---------------------------- MODULE Spec2Model ----------------------------
(***************************************************************************)
(* Model of the inventario application: the Excel upload component         *)
(* (CargaExcelComponent), the productos table of init.sql, the product     *)
(* list (ProductoListComponent) and the error mapping of ProductoService.  *)
(*                                                                         *)
(* Conventions.  Text that the code only stores or shows is a TLA+ string  *)
(* (accents and emoji of the source literals are dropped).  Text that the  *)
(* code inspects character by character (file names, search terms, product *)
(* fields, codigo and nombre of the table) is a sequence of one-character  *)
(* strings, so that split, trim, toLowerCase and includes are computed.    *)
(* A nullable object field holds NULO; a nullable handle (timer id,        *)
(* socket) holds 0, handles being positive.                                *)
(***************************************************************************)
EXTENDS Integers, Sequences, FiniteSets, TLC

VARIABLES
    \* ---- CargaExcelComponent: the fields of the component
    archivoSeleccionado, nombreArchivo, validacion, resultado,
    validando, cargando, mostrarVistaPrevia,
    mensajeError, mensajeExito, mensajeAdvertencia,
    progreso, progresoMensaje, websocket, intervaloSimulacion,
    \* ---- CargaExcelComponent: the environment of the component
    peticionesValidar,   \* validarExcel requests awaiting their response
    peticionesCargar,    \* cargarExcel requests awaiting their response
    temporizadores,      \* setTimeout callbacks not yet run
    intervalos,          \* setInterval timers not cleared
    sockets,             \* WebSockets created and not closed
    destruido,           \* ngOnDestroy has run
    acciones,            \* user events handled so far
    nValidar,            \* validarExcel requests sent so far
    \* ---- CargaExcelComponent: history kept for the properties
    enviadas,            \* every cargarExcel request sent, as sent
    confirmadas,         \* confirmed cargarArchivo calls, by number
    wsRecibido,          \* a socket message arrived since the last confirmed cargarArchivo
    \* ---- the productos table
    tabla,               \* the rows of productos
    productos_id_seq,    \* next value of the sequence behind id SERIAL
    reloj,               \* the clock: CURRENT_TIMESTAMP of the next statement
    nSentencias,         \* statements run so far
    sqlEstado,           \* outcome of the last statement: "ok" or the constraint violated
    ultimaSentencia,     \* the last statement run
    \* ---- ProductoListComponent: the fields of the component
    productos, productosFiltrados, terminoBusqueda,
    paginaActual, totalPaginas, cargandoLista,
    \* ---- ProductoListComponent: the environment and the history
    peticionesLista,     \* obtenerProductos requests awaiting their response
    nPeticionesLista,    \* obtenerProductos requests sent so far
    ultimaOp,            \* the last handler of the component that ran
    \* ---- ProductoListComponent: the product form
    productoForm, editando, errores,
    peticionesGuardar,   \* crearProducto / actualizarProducto requests awaiting their response
    nGuardados,          \* such requests sent so far
    \* ---- ProductoService
    enVuelo,             \* the methods whose HTTP call awaits its response
    entrega              \* what the last finished call gave to its subscriber

varsCarga ==
    << archivoSeleccionado, nombreArchivo, validacion, resultado,
       validando, cargando, mostrarVistaPrevia,
       mensajeError, mensajeExito, mensajeAdvertencia,
       progreso, progresoMensaje, websocket, intervaloSimulacion,
       peticionesValidar, peticionesCargar, temporizadores, intervalos,
       sockets, destruido, acciones, nValidar, enviadas, confirmadas, wsRecibido >>

varsBD ==
    << tabla, productos_id_seq, reloj, nSentencias, sqlEstado, ultimaSentencia >>

varsLista ==
    << productos, productosFiltrados, terminoBusqueda, paginaActual, totalPaginas,
       cargandoLista, peticionesLista, nPeticionesLista, ultimaOp >>

varsServicio ==
    << enVuelo, entrega >>

varsFormulario ==
    << productoForm, editando, errores, peticionesGuardar, nGuardados >>

vars ==
    << varsCarga, varsBD, varsLista, varsServicio, varsFormulario >>

\* what each part of the model leaves alone
restoCarga ==
    << varsBD, varsLista, varsServicio, varsFormulario >>

restoBD ==
    << varsCarga, varsLista, varsServicio, varsFormulario >>

restoLista ==
    << varsCarga, varsBD, varsServicio, varsFormulario >>

restoServicio ==
    << varsCarga, varsBD, varsLista, varsFormulario >>

restoFormulario ==
    << varsCarga, varsBD, varsServicio >>

\* ------------------------------------------------------------------------
\* Bounds of the model
\* ------------------------------------------------------------------------
\* user events (file selections, button clicks, leaving the page) in a run
MaxAcciones ==
    3
\* SQL statements in a run
MaxSentencias ==
    2
\* last instant of the clock
MaxReloj ==
    2
\* products in the longest list the backend returns
MaxProductos ==
    11
\* obtenerProductos requests in a run
MaxPeticionesLista ==
    2
\* products sent by guardarProducto in a run
MaxGuardados ==
    2

\* ------------------------------------------------------------------------
\* Text helpers
\* ------------------------------------------------------------------------
NULO ==
    [nulo |-> TRUE]

Mayusculas ==
    <<"A", "B", "C", "D", "E", "F", "G", "H", "I", "J", "K", "L", "M", "N", "O", "P", "Q", "R", "S", "T", "U", "V", "W", "X", "Y", "Z">>

Minusculas ==
    <<"a", "b", "c", "d", "e", "f", "g", "h", "i", "j", "k", "l", "m", "n", "o", "p", "q", "r", "s", "t", "u", "v", "w", "x", "y", "z">>

\* the lower-case letter of each capital
EnMinuscula ==
    [c \in {Mayusculas[i] : i \in DOMAIN Mayusculas} |->
        Minusculas[CHOOSE i \in DOMAIN Mayusculas : Mayusculas[i] = c]]

\* String.prototype.toLowerCase on one character
Minuscula(c) ==
    IF c \in DOMAIN EnMinuscula THEN EnMinuscula[c] ELSE c

ToLowerCase(s) ==
    [i \in 1..Len(s) |-> Minuscula(s[i])]

\* s.split('.').pop(): the part of s after its last '.', all of s without one
UltimoSegmento(s) ==
    LET puntos == {i \in 1..Len(s) : s[i] = "."}
    IN  IF puntos = {} THEN s
        ELSE LET ult == CHOOSE i \in puntos : \A j \in puntos : j <= i
             IN  SubSeq(s, ult + 1, Len(s))

\* Array.prototype.join over strings
RECURSIVE Join(_, _)
Join(xs, sep) ==
    IF Len(xs) = 0 THEN ""
    ELSE IF Len(xs) = 1 THEN xs[1]
    ELSE xs[1] \o sep \o Join(Tail(xs), sep)

\* Array.prototype.slice(0, n)
Slice0(xs, n) ==
    SubSeq(xs, 1, IF Len(xs) < n THEN Len(xs) ELSE n)

Max(a, b) ==
    IF a >= b THEN a ELSE b

Min(a, b) ==
    IF a <= b THEN a ELSE b


\* ------------------------------------------------------------------------
\* CargaExcelComponent: inputs
\* ------------------------------------------------------------------------
\* const MAX_SIZE = 10 * 1024 * 1024
MAX_SIZE ==
    10 * 1024 * 1024

\* The files the user can pick: [nombre, size].
Archivos ==
    { [nombre |-> <<"b", ".", "X", "L", "S", "X">>, size |-> MAX_SIZE],
      [nombre |-> <<"c", ".", "x", "l", "s", "x">>, size |-> MAX_SIZE + 1],
      [nombre |-> <<"d", ".", "t", "x", "t">>,      size |-> 100],
      [nombre |-> <<"x", "l", "s">>,                size |-> 100] }

\* total_filas values the backend can report
FilasPosibles ==
    {200}

\* Bodies of a validarExcel response (interface ValidacionExcel); datos_previos
\* is kept by its length.
RespuestasValidacion ==
    { [valido |-> TRUE, mensaje |-> "Archivo valido", errores |-> <<>>,
       total_filas |-> n, datos_previos |-> IF n = 0 THEN 0 ELSE 1,
       advertencias |-> IF n = 200 THEN <<"w1", "w2">> ELSE <<>>] : n \in FilasPosibles }
    \cup
    { [valido |-> FALSE, mensaje |-> "Archivo invalido", errores |-> e,
       total_filas |-> 0, datos_previos |-> 0, advertencias |-> <<>>]
         : e \in {<<"e1", "e2", "e3", "e4">>} }

\* Bodies of a cargarExcel response (interface ResultadoCarga)
RespuestasCarga ==
    { [success |-> TRUE, mensaje |-> "Carga exitosa", productos_creados |-> 1,
       productos_actualizados |-> 1, errores |-> <<"e1", "e2", "e3", "e4">>, total_procesados |-> 2],
      [success |-> FALSE, mensaje |-> "Carga fallida", productos_creados |-> 0,
       productos_actualizados |-> 0, errores |-> <<>>, total_procesados |-> 0] }

\* Error.message values the service hands to an error callback
MensajesDeError ==
    {"", "No se pudo conectar con el servidor. Verifica tu conexion."}

\* Payloads of a socket message: parsed JSON [progreso, mensaje], or text
\* that JSON.parse rejects.
DatosWs ==
    { [json |-> TRUE,  progreso |-> 50,  mensaje |-> "Procesando"],
      [json |-> TRUE,  progreso |-> 100, mensaje |-> ""],
      [json |-> FALSE, progreso |-> 0,   mensaje |-> ""] }

\* ------------------------------------------------------------------------
\* CargaExcelComponent: state after construction
\* ------------------------------------------------------------------------
InitCarga ==
    /\ archivoSeleccionado = NULO
    /\ nombreArchivo = <<>>
    /\ validacion = NULO
    /\ resultado = NULO
    /\ validando = FALSE
    /\ cargando = FALSE
    /\ mostrarVistaPrevia = FALSE
    /\ mensajeError = ""
    /\ mensajeExito = ""
    /\ mensajeAdvertencia = ""
    /\ progreso = 0
    /\ progresoMensaje = ""
    /\ websocket = 0
    /\ intervaloSimulacion = 0
    /\ peticionesValidar = {}
    /\ peticionesCargar = {}
    /\ temporizadores = {}
    /\ intervalos = {}
    /\ sockets = {}
    /\ destruido = FALSE
    /\ acciones = 0
    /\ nValidar = 0
    /\ enviadas = {}
    /\ confirmadas = 0
    /\ wsRecibido = FALSE

\* ------------------------------------------------------------------------
\* CargaExcelComponent: helpers of the handlers
\* ------------------------------------------------------------------------
\* const extension = file.name.split('.').pop()?.toLowerCase()
Extension(nombre) ==
    ToLowerCase(UltimoSegmento(nombre))

\* ['xlsx', 'xls'].includes(extension || '')
ExtensionPermitida(nombre) ==
    Extension(nombre) \in { <<"x", "l", "s", "x">>, <<"x", "l", "s">> }

\* the file passes both checks of onFileSelected
ArchivoAceptado(f) ==
    /\ ~(f.size > MAX_SIZE)
    /\ ExtensionPermitida(f.nombre)

\* this.validacion?.valido
ValidacionValida ==
    validacion # NULO /\ validacion.valido

\* detenerSimulacion(): the interval set left running
IntervalosTrasDetener ==
    IF intervaloSimulacion # 0
    THEN {i \in intervalos : i.id # intervaloSimulacion}
    ELSE intervalos

\* desconectarWebSocket(): the sockets left open
SocketsTrasDesconectar ==
    IF websocket # 0
    THEN {s \in sockets : s.id # websocket}
    ELSE sockets

\* const tiempoEstimado = Math.max(8000, Math.min(totalFilas * 200, 30000))
TiempoEstimado ==
    LET totalFilas == IF validacion # NULO /\ validacion.total_filas # 0
                      THEN validacion.total_filas ELSE 10
    IN  Max(8000, Min(totalFilas * 200, 30000))

\* mensajeError of an invalid validation
MensajeValidacionInvalida(v) ==
    IF Len(v.errores) > 0
    THEN v.mensaje \o " - " \o Join(Slice0(v.errores, 3), "; ")
         \o (IF Len(v.errores) > 3
             THEN " (y " \o ToString(Len(v.errores) - 3) \o " errores mas)"
             ELSE "")
    ELSE v.mensaje

\* error.message || fallback
MensajeO(m, porDefecto) ==
    IF m # "" THEN m ELSE porDefecto


\* ------------------------------------------------------------------------
\* CargaExcelComponent: handlers
\* ------------------------------------------------------------------------
\* onFileSelected(event), f the file of the event or NULO without one;
\* an accepted file goes on to validarArchivo().
OnFileSelected(f) ==
    /\ ~destruido
    /\ acciones < MaxAcciones
    /\ acciones' = acciones + 1
    /\ mensajeExito' = ""
    /\ IF f = NULO
       THEN /\ mensajeError' = ""
            /\ mensajeAdvertencia' = "No se selecciono ningun archivo"
            /\ UNCHANGED << archivoSeleccionado, nombreArchivo, validacion, resultado,
                            mostrarVistaPrevia, validando, peticionesValidar, nValidar >>
       ELSE IF f.size > MAX_SIZE
       THEN /\ mensajeError' = "El archivo excede el tamano maximo de 10 MB"
            /\ mensajeAdvertencia' = ""
            /\ archivoSeleccionado' = NULO
            /\ nombreArchivo' = <<>>
            /\ UNCHANGED << validacion, resultado, mostrarVistaPrevia, validando,
                            peticionesValidar, nValidar >>
       ELSE IF ~ExtensionPermitida(f.nombre)
       THEN /\ mensajeError' = "Solo se permiten archivos Excel (.xlsx o .xls)"
            /\ mensajeAdvertencia' = ""
            /\ archivoSeleccionado' = NULO
            /\ nombreArchivo' = <<>>
            /\ UNCHANGED << validacion, resultado, mostrarVistaPrevia, validando,
                            peticionesValidar, nValidar >>
       ELSE /\ archivoSeleccionado' = f
            /\ nombreArchivo' = f.nombre
            /\ validacion' = NULO
            /\ resultado' = NULO
            /\ mostrarVistaPrevia' = FALSE
            /\ validando' = TRUE
            /\ mensajeError' = ""
            /\ mensajeAdvertencia' = ""
            /\ nValidar' = nValidar + 1
            /\ peticionesValidar' = peticionesValidar \cup {[id |-> nValidar + 1, archivo |-> f]}
    /\ UNCHANGED << cargando, progreso, progresoMensaje, websocket, intervaloSimulacion,
                    peticionesCargar, temporizadores, intervalos, sockets, destruido,
                    enviadas, confirmadas, wsRecibido >>

\* validarArchivo() called on its own (the public method)
ValidarArchivo ==
    /\ ~destruido
    /\ acciones < MaxAcciones
    /\ acciones' = acciones + 1
    /\ IF archivoSeleccionado = NULO
       THEN /\ mensajeAdvertencia' = "Por favor selecciona un archivo"
            /\ UNCHANGED << validando, mensajeError, mensajeExito, validacion,
                            peticionesValidar, nValidar >>
       ELSE /\ validando' = TRUE
            /\ mensajeError' = ""
            /\ mensajeExito' = ""
            /\ mensajeAdvertencia' = ""
            /\ validacion' = NULO
            /\ nValidar' = nValidar + 1
            /\ peticionesValidar' = peticionesValidar
                                      \cup {[id |-> nValidar + 1, archivo |-> archivoSeleccionado]}
    /\ UNCHANGED << archivoSeleccionado, nombreArchivo, resultado, cargando, mostrarVistaPrevia,
                    progreso, progresoMensaje, websocket, intervaloSimulacion,
                    peticionesCargar, temporizadores, intervalos, sockets, destruido,
                    enviadas, confirmadas, wsRecibido >>

\* next callback of validarExcel: r the body, for the file of request p.
\* The stored value keeps the file it answers (field archivo, history only).
ValidarNext(p, r) ==
    /\ p \in peticionesValidar
    /\ peticionesValidar' = peticionesValidar \ {p}
    /\ validacion' = [valido |-> r.valido, mensaje |-> r.mensaje, errores |-> r.errores,
                      total_filas |-> r.total_filas, datos_previos |-> r.datos_previos,
                      advertencias |-> r.advertencias, archivo |-> p.archivo]
    /\ validando' = FALSE
    /\ IF r.valido
       THEN /\ mensajeExito' = r.mensaje
            /\ mostrarVistaPrevia' = (r.datos_previos > 0)
            /\ mensajeAdvertencia' = IF Len(r.advertencias) > 0
                                     THEN Join(r.advertencias, ", ")
                                     ELSE mensajeAdvertencia
            /\ UNCHANGED mensajeError
       ELSE /\ mensajeError' = MensajeValidacionInvalida(r)
            /\ UNCHANGED << mensajeExito, mostrarVistaPrevia, mensajeAdvertencia >>
    /\ UNCHANGED << archivoSeleccionado, nombreArchivo, resultado, cargando,
                    progreso, progresoMensaje, websocket, intervaloSimulacion,
                    peticionesCargar, temporizadores, intervalos, sockets, destruido,
                    nValidar, enviadas, confirmadas, wsRecibido, acciones >>

\* error callback of validarExcel
ValidarError(p, m) ==
    /\ p \in peticionesValidar
    /\ peticionesValidar' = peticionesValidar \ {p}
    /\ mensajeError' = MensajeO(m, "Error desconocido al validar el archivo")
    /\ validando' = FALSE
    /\ UNCHANGED << archivoSeleccionado, nombreArchivo, validacion, resultado, cargando,
                    mostrarVistaPrevia, mensajeExito, mensajeAdvertencia,
                    progreso, progresoMensaje, websocket, intervaloSimulacion,
                    peticionesCargar, temporizadores, intervalos, sockets, destruido,
                    nValidar, enviadas, confirmadas, wsRecibido, acciones >>

\* cargarArchivo(), confirmar the answer to confirm(); a confirmed call
\* schedules the 100 ms callback.
CargarArchivo(confirmar) ==
    /\ ~destruido
    /\ acciones < MaxAcciones
    /\ acciones' = acciones + 1
    /\ IF archivoSeleccionado = NULO
       THEN /\ mensajeAdvertencia' = "Por favor selecciona un archivo"
            /\ UNCHANGED << cargando, progreso, mensajeError, mensajeExito, resultado,
                            temporizadores, confirmadas, wsRecibido >>
       ELSE IF ~ValidacionValida
       THEN /\ mensajeAdvertencia' = "Primero valida el archivo"
            /\ UNCHANGED << cargando, progreso, mensajeError, mensajeExito, resultado,
                            temporizadores, confirmadas, wsRecibido >>
       ELSE IF ~confirmar
       THEN UNCHANGED << cargando, progreso, mensajeError, mensajeExito, mensajeAdvertencia,
                         resultado, temporizadores, confirmadas, wsRecibido >>
       ELSE /\ cargando' = TRUE
            /\ progreso' = 0
            /\ mensajeError' = ""
            /\ mensajeExito' = ""
            /\ mensajeAdvertencia' = ""
            /\ resultado' = NULO
            /\ confirmadas' = confirmadas + 1
            /\ wsRecibido' = FALSE
            /\ temporizadores' = temporizadores
                 \cup {[tipo |-> "inicio", id |-> confirmadas + 1, resultado |-> NULO]}
    /\ UNCHANGED << archivoSeleccionado, nombreArchivo, validacion, validando,
                    mostrarVistaPrevia, progresoMensaje, websocket, intervaloSimulacion,
                    peticionesValidar, peticionesCargar, intervalos, sockets, destruido,
                    nValidar, enviadas >>

\* The 100 ms callback of cargarArchivo: simularProgresoGradual(),
\* conectarWebSocket() (wsLanza: the WebSocket constructor throws) and
\* ejecutarCarga().
TemporizadorInicio(t, wsLanza) ==
    /\ t \in temporizadores
    /\ t.tipo = "inicio"
    /\ temporizadores' = temporizadores \ {t}
    \* simularProgresoGradual
    /\ progreso' = 0
    /\ progresoMensaje' = "Iniciando carga..."
    /\ intervaloSimulacion' = t.id
    /\ intervalos' = intervalos \cup {[id |-> t.id, tiempoEstimado |-> TiempoEstimado]}
    \* conectarWebSocket
    /\ IF wsLanza
       THEN UNCHANGED << websocket, sockets >>
       ELSE /\ websocket' = t.id
            /\ sockets' = sockets \cup {[id |-> t.id, estado |-> "connecting"]}
    \* ejecutarCarga
    /\ IF archivoSeleccionado = NULO
       THEN UNCHANGED << peticionesCargar, enviadas >>
       ELSE /\ peticionesCargar' = peticionesCargar
                                     \cup {[id |-> t.id, archivo |-> archivoSeleccionado]}
            /\ enviadas' = enviadas \cup {[id |-> t.id, archivo |-> archivoSeleccionado,
                                            validacion |-> validacion]}
    /\ UNCHANGED << archivoSeleccionado, nombreArchivo, validacion, resultado, validando,
                    cargando, mostrarVistaPrevia, mensajeError, mensajeExito,
                    mensajeAdvertencia, peticionesValidar, destruido, nValidar,
                    confirmadas, wsRecibido, acciones >>

\* next callback of cargarExcel: shows 100 % and schedules the 2000 ms callback
CargarNext(p, r) ==
    /\ p \in peticionesCargar
    /\ peticionesCargar' = peticionesCargar \ {p}
    /\ progreso' = 100
    /\ progresoMensaje' = "Carga completada!"
    /\ temporizadores' = temporizadores \cup {[tipo |-> "fin", id |-> p.id, resultado |-> r]}
    /\ UNCHANGED << archivoSeleccionado, nombreArchivo, validacion, resultado, validando,
                    cargando, mostrarVistaPrevia, mensajeError, mensajeExito,
                    mensajeAdvertencia, websocket, intervaloSimulacion, peticionesValidar,
                    intervalos, sockets, destruido, acciones, nValidar, enviadas, confirmadas,
                    wsRecibido, acciones >>

\* The 2000 ms callback of the next callback of cargarExcel
TemporizadorFin(t) ==
    /\ t \in temporizadores
    /\ t.tipo = "fin"
    /\ temporizadores' = temporizadores \ {t}
    /\ intervalos' = IntervalosTrasDetener
    /\ intervaloSimulacion' = 0
    /\ resultado' = t.resultado
    /\ cargando' = FALSE
    /\ IF t.resultado.success
       THEN /\ mensajeExito' = t.resultado.mensaje
            /\ progresoMensaje' =
                 "Creados: " \o ToString(t.resultado.productos_creados) \o ", "
                 \o "Actualizados: " \o ToString(t.resultado.productos_actualizados) \o ", "
                 \o "Total: " \o ToString(t.resultado.total_procesados)
            /\ mensajeAdvertencia' =
                 IF Len(t.resultado.errores) > 0
                 THEN "Algunos productos tuvieron errores: "
                      \o Join(Slice0(t.resultado.errores, 3), "; ")
                      \o (IF Len(t.resultado.errores) > 3
                          THEN " (y " \o ToString(Len(t.resultado.errores) - 3) \o " mas)"
                          ELSE "")
                 ELSE mensajeAdvertencia
            /\ UNCHANGED mensajeError
       ELSE /\ mensajeError' = t.resultado.mensaje
            /\ UNCHANGED << mensajeExito, progresoMensaje, mensajeAdvertencia >>
    /\ sockets' = SocketsTrasDesconectar
    /\ websocket' = 0
    /\ UNCHANGED << archivoSeleccionado, nombreArchivo, validacion, validando,
                    mostrarVistaPrevia, progreso, peticionesValidar, peticionesCargar,
                    destruido, nValidar, enviadas, confirmadas, wsRecibido, acciones >>

\* error callback of cargarExcel
CargarError(p, m) ==
    /\ p \in peticionesCargar
    /\ peticionesCargar' = peticionesCargar \ {p}
    /\ intervalos' = IntervalosTrasDetener
    /\ intervaloSimulacion' = 0
    /\ mensajeError' = MensajeO(m, "Error desconocido al cargar el archivo")
    /\ cargando' = FALSE
    /\ sockets' = SocketsTrasDesconectar
    /\ websocket' = 0
    /\ UNCHANGED << archivoSeleccionado, nombreArchivo, validacion, resultado, validando,
                    mostrarVistaPrevia, mensajeExito, mensajeAdvertencia, progreso,
                    progresoMensaje, peticionesValidar, temporizadores, destruido,
                    nValidar, enviadas, confirmadas, wsRecibido, acciones >>

\* The 200 ms callback of interval i.  incrementoPorCiclo is
\* 80 / (tiempoEstimado / 200) = 16000 / tiempoEstimado; progreso holds an
\* integer, so Math.floor(progreso + incremento) is progreso plus the
\* integer part of the increment, and the message thresholds compare the
\* sum before the floor.
IntervaloTick(i) ==
    /\ i \in intervalos
    /\ IF progreso < 80
       THEN LET T == i.tiempoEstimado
                \* (progreso + 16000 / T) < limite
                menor(limite) == progreso * T + 16000 < limite * T
            IN  /\ progresoMensaje' =
                     IF menor(20) THEN "Preparando datos..."
                     ELSE IF menor(40) THEN "Validando productos..."
                     ELSE IF menor(60) THEN "Insertando en base de datos..."
                     ELSE IF menor(80) THEN "Actualizando registros..."
                     ELSE progresoMensaje
                /\ progreso' = (progreso * T + 16000) \div T
       ELSE /\ progreso' = 85
            /\ progresoMensaje' = "Completando proceso..."
    /\ UNCHANGED << archivoSeleccionado, nombreArchivo, validacion, resultado, validando,
                    cargando, mostrarVistaPrevia, mensajeError, mensajeExito,
                    mensajeAdvertencia, websocket, intervaloSimulacion, peticionesValidar,
                    peticionesCargar, temporizadores, intervalos, sockets, destruido,
                    nValidar, enviadas, confirmadas, wsRecibido, acciones >>

\* websocket.onopen of socket s
WsOpen(s) ==
    /\ s \in sockets
    /\ s.estado = "connecting"
    /\ sockets' = (sockets \ {s}) \cup {[id |-> s.id, estado |-> "open"]}
    /\ intervalos' = IntervalosTrasDetener
    /\ intervaloSimulacion' = 0
    /\ UNCHANGED << archivoSeleccionado, nombreArchivo, validacion, resultado, validando,
                    cargando, mostrarVistaPrevia, mensajeError, mensajeExito,
                    mensajeAdvertencia, progreso, progresoMensaje, websocket,
                    peticionesValidar, peticionesCargar, temporizadores, destruido,
                    nValidar, enviadas, confirmadas, wsRecibido, acciones >>

\* websocket.onmessage of socket s with payload d
WsMessage(s, d) ==
    /\ s \in sockets
    /\ s.estado = "open"
    /\ wsRecibido' = TRUE
    /\ IF d.json
       THEN /\ progreso' = d.progreso
            /\ progresoMensaje' = MensajeO(d.mensaje, "Procesados: 1/2")
       ELSE UNCHANGED << progreso, progresoMensaje >>
    /\ UNCHANGED << archivoSeleccionado, nombreArchivo, validacion, resultado, validando,
                    cargando, mostrarVistaPrevia, mensajeError, mensajeExito,
                    mensajeAdvertencia, websocket, intervaloSimulacion, peticionesValidar,
                    peticionesCargar, temporizadores, intervalos, sockets, destruido,
                    nValidar, enviadas, confirmadas, acciones >>

\* websocket.onerror then onclose of socket s: the connection failed or
\* broke; both handlers only log.
WsError(s) ==
    /\ s \in sockets
    /\ sockets' = sockets \ {s}
    /\ UNCHANGED << archivoSeleccionado, nombreArchivo, validacion, resultado, validando,
                    cargando, mostrarVistaPrevia, mensajeError, mensajeExito,
                    mensajeAdvertencia, progreso, progresoMensaje, websocket,
                    intervaloSimulacion, peticionesValidar, peticionesCargar,
                    temporizadores, intervalos, destruido, nValidar, enviadas,
                    confirmadas, wsRecibido, acciones >>

\* a limpiar() that also stops the simulation
Limpiar_que_detiene ==
    /\ ~destruido
    /\ acciones < MaxAcciones
    /\ acciones' = acciones + 1
    /\ archivoSeleccionado' = NULO
    /\ nombreArchivo' = <<>>
    /\ validacion' = NULO
    /\ resultado' = NULO
    /\ mostrarVistaPrevia' = FALSE
    /\ progreso' = 0
    /\ progresoMensaje' = ""
    /\ mensajeError' = ""
    /\ mensajeExito' = ""
    /\ mensajeAdvertencia' = ""
    /\ intervalos' = IntervalosTrasDetener
    /\ intervaloSimulacion' = 0
    /\ UNCHANGED << validando, cargando, websocket, peticionesValidar,
                    peticionesCargar, temporizadores, sockets, destruido,
                    nValidar, enviadas, confirmadas, wsRecibido >>

\* limpiar()
Limpiar ==
    /\ ~destruido
    /\ acciones < MaxAcciones
    /\ acciones' = acciones + 1
    /\ archivoSeleccionado' = NULO
    /\ nombreArchivo' = <<>>
    /\ validacion' = NULO
    /\ resultado' = NULO
    /\ mostrarVistaPrevia' = FALSE
    /\ progreso' = 0
    /\ progresoMensaje' = ""
    /\ mensajeError' = ""
    /\ mensajeExito' = ""
    /\ mensajeAdvertencia' = ""
    /\ UNCHANGED << validando, cargando, websocket, intervaloSimulacion, peticionesValidar,
                    peticionesCargar, temporizadores, intervalos, sockets, destruido,
                    nValidar, enviadas, confirmadas, wsRecibido >>

\* ngOnDestroy()
NgOnDestroy ==
    /\ ~destruido
    /\ acciones < MaxAcciones
    /\ acciones' = acciones + 1
    /\ destruido' = TRUE
    /\ sockets' = SocketsTrasDesconectar
    /\ websocket' = 0
    /\ intervalos' = IntervalosTrasDetener
    /\ intervaloSimulacion' = 0
    /\ UNCHANGED << archivoSeleccionado, nombreArchivo, validacion, resultado, validando,
                    cargando, mostrarVistaPrevia, mensajeError, mensajeExito,
                    mensajeAdvertencia, progreso, progresoMensaje, peticionesValidar,
                    peticionesCargar, temporizadores, nValidar, enviadas, confirmadas,
                    wsRecibido >>

NextCarga ==
    \/ \E f \in Archivos \cup {NULO} : OnFileSelected(f) /\ UNCHANGED restoCarga
    \/ ValidarArchivo /\ UNCHANGED restoCarga
    \/ \E p \in peticionesValidar : \E r \in RespuestasValidacion : ValidarNext(p, r) /\ UNCHANGED restoCarga
    \/ \E p \in peticionesValidar : \E m \in MensajesDeError : ValidarError(p, m) /\ UNCHANGED restoCarga
    \/ \E c \in BOOLEAN : CargarArchivo(c) /\ UNCHANGED restoCarga
    \/ \E t \in temporizadores : \E w \in BOOLEAN : TemporizadorInicio(t, w) /\ UNCHANGED restoCarga
    \/ \E p \in peticionesCargar : \E r \in RespuestasCarga : CargarNext(p, r) /\ UNCHANGED restoCarga
    \/ \E t \in temporizadores : TemporizadorFin(t) /\ UNCHANGED restoCarga
    \/ \E p \in peticionesCargar : \E m \in MensajesDeError : CargarError(p, m) /\ UNCHANGED restoCarga
    \/ \E i \in intervalos : IntervaloTick(i) /\ UNCHANGED restoCarga
    \/ \E s \in sockets : WsOpen(s) /\ UNCHANGED restoCarga
    \/ \E s \in sockets : \E d \in DatosWs : WsMessage(s, d) /\ UNCHANGED restoCarga
    \/ \E s \in sockets : WsError(s) /\ UNCHANGED restoCarga
    \/ Limpiar /\ UNCHANGED restoCarga
    \/ NgOnDestroy /\ UNCHANGED restoCarga


\* ========================================================================
\* The productos table of init.sql
\* ========================================================================
\* A row is a record of the nine columns; precio is in hundredths.  nulas
\* is the set of columns holding NULL (the field of such a column is not
\* read).  rid (the row's identity, which no statement changes) and
\* actualizada (some UPDATE has touched the row) are history for the
\* properties.
ColumnasNotNull ==
    {"id", "codigo", "nombre", "cantidad", "precio"}

PROD001 ==
    <<"P", "R", "O", "D", "0", "0", "1">>

\* The rows of the INSERT that ends init.sql, run at time 0
FilasIniciales ==
    {
      [id |-> 1, codigo |-> <<"P", "R", "O", "D", "0", "0", "1">>,
       nombre |-> <<"L", "a", "p", "t", "o", "p", " ", "D", "e", "l", "l", " ", "X", "P", "S", " ", "1", "5">>,
       descripcion |-> "Laptop de alto rendimiento", cantidad |-> 10, precio |-> 129999,
       categoria |-> "Electronica", fecha_creacion |-> 0, fecha_actualizacion |-> 0,
       nulas |-> {}, rid |-> 1, actualizada |-> FALSE],
      [id |-> 2, codigo |-> <<"P", "R", "O", "D", "0", "0", "2">>,
       nombre |-> <<"M", "o", "u", "s", "e", " ", "L", "o", "g", "i", "t", "e", "c", "h", " ", "M", "X", " ", "M", "a", "s", "t", "e", "r">>,
       descripcion |-> "Mouse ergonomico inalambrico", cantidad |-> 25, precio |-> 9999,
       categoria |-> "Accesorios", fecha_creacion |-> 0, fecha_actualizacion |-> 0,
       nulas |-> {}, rid |-> 2, actualizada |-> FALSE],
      [id |-> 3, codigo |-> <<"P", "R", "O", "D", "0", "0", "3">>,
       nombre |-> <<"T", "e", "c", "l", "a", "d", "o", " ", "M", "e", "c", "a", "n", "i", "c", "o", " ", "K", "e", "y", "c", "h", "r", "o", "n", " ", "K", "2">>,
       descripcion |-> "Teclado mecanico retroiluminado", cantidad |-> 15, precio |-> 8999,
       categoria |-> "Accesorios", fecha_creacion |-> 0, fecha_actualizacion |-> 0,
       nulas |-> {}, rid |-> 3, actualizada |-> FALSE],
      [id |-> 4, codigo |-> <<"P", "R", "O", "D", "0", "0", "4">>,
       nombre |-> <<"M", "o", "n", "i", "t", "o", "r", " ", "L", "G", " ", "2", "7", " ", "4", "K">>,
       descripcion |-> "Monitor 4K UHD 27 pulgadas", cantidad |-> 8, precio |-> 44999,
       categoria |-> "Electronica", fecha_creacion |-> 0, fecha_actualizacion |-> 0,
       nulas |-> {}, rid |-> 4, actualizada |-> FALSE],
      [id |-> 5, codigo |-> <<"P", "R", "O", "D", "0", "0", "5">>,
       nombre |-> <<"W", "e", "b", "c", "a", "m", " ", "L", "o", "g", "i", "t", "e", "c", "h", " ", "C", "9", "2", "0">>,
       descripcion |-> "Webcam Full HD 1080p", cantidad |-> 20, precio |-> 7999,
       categoria |-> "Accesorios", fecha_creacion |-> 0, fecha_actualizacion |-> 0,
       nulas |-> {}, rid |-> 5, actualizada |-> FALSE] }

\* TRIM(s): s without its leading and trailing spaces
RECURSIVE TrimIzq(_)
TrimIzq(s) ==
    IF Len(s) > 0 /\ s[1] = " " THEN TrimIzq(Tail(s)) ELSE s

RECURSIVE TrimDer(_)
TrimDer(s) ==
    IF Len(s) > 0 /\ s[Len(s)] = " " THEN TrimDer(SubSeq(s, 1, Len(s) - 1)) ELSE s

TRIM(s) ==
    TrimDer(TrimIzq(s))

LENGTH(s) ==
    Len(s)

\* a table without check_cantidad
check_cantidad_ausente(f) ==
    TRUE

\* CONSTRAINT check_cantidad CHECK (cantidad >= 0); a CHECK over NULL passes
check_cantidad(f) ==
    "cantidad" \in f.nulas \/ f.cantidad >= 0

\* CONSTRAINT check_precio CHECK (precio >= 0)
check_precio(f) ==
    "precio" \in f.nulas \/ f.precio >= 0

\* CONSTRAINT check_codigo_no_vacio CHECK (LENGTH(TRIM(codigo)) > 0)
check_codigo_no_vacio(f) ==
    "codigo" \in f.nulas \/ LENGTH(TRIM(f.codigo)) > 0

\* CONSTRAINT check_nombre_no_vacio CHECK (LENGTH(TRIM(nombre)) > 0)
check_nombre_no_vacio(f) ==
    "nombre" \in f.nulas \/ LENGTH(TRIM(f.nombre)) > 0

\* a table whose codigo column is not UNIQUE
Veredicto_sin_unique(nuevas, resto) ==
    LET todas == nuevas \cup resto
    IN  IF \E f \in nuevas : f.nulas \cap ColumnasNotNull # {} THEN "not_null"
        ELSE IF \E f \in nuevas : ~check_cantidad(f) THEN "check_cantidad"
        ELSE IF \E f \in nuevas : ~check_precio(f) THEN "check_precio"
        ELSE IF \E f \in nuevas : ~check_codigo_no_vacio(f) THEN "check_codigo_no_vacio"
        ELSE IF \E f \in nuevas : ~check_nombre_no_vacio(f) THEN "check_nombre_no_vacio"
        ELSE IF \E f \in nuevas : \E g \in todas : f.rid # g.rid /\ f.id = g.id
             THEN "productos_pkey"
        ELSE "ok"

\* The result of checking the candidate rows nuevas against the rows kept
\* (resto): "ok", or the constraint that rejects the statement.
Veredicto(nuevas, resto) ==
    LET todas == nuevas \cup resto
    IN  IF \E f \in nuevas : f.nulas \cap ColumnasNotNull # {} THEN "not_null"
        ELSE IF \E f \in nuevas : ~check_cantidad(f) THEN "check_cantidad"
        ELSE IF \E f \in nuevas : ~check_precio(f) THEN "check_precio"
        ELSE IF \E f \in nuevas : ~check_codigo_no_vacio(f) THEN "check_codigo_no_vacio"
        ELSE IF \E f \in nuevas : ~check_nombre_no_vacio(f) THEN "check_nombre_no_vacio"
        ELSE IF \E f \in nuevas : \E g \in todas : f.rid # g.rid /\ f.id = g.id
             THEN "productos_pkey"
        ELSE IF \E f \in nuevas : \E g \in todas : f.rid # g.rid /\ f.codigo = g.codigo
             THEN "productos_codigo_key"
        ELSE "ok"

\* ------------------------------------------------------------------------
\* productos: statements
\* ------------------------------------------------------------------------
ValoresBase ==
    [id |-> 9, codigo |-> <<"A">>, nombre |-> <<"N">>, descripcion |-> "d",
     cantidad |-> 2, precio |-> 0, categoria |-> "Accesorios",
     fecha_creacion |-> 7, fecha_actualizacion |-> 9]

\* the column list of the INSERT of init.sql leaves these to their defaults
OmitidasUsual ==
    {"id", "fecha_creacion", "fecha_actualizacion"}

\* INSERT statements: the values given, the columns left out of the column
\* list (omitidas) and the columns given as NULL (nulas).
SentenciasInsert ==
    { [valores |-> ValoresBase, omitidas |-> OmitidasUsual, nulas |-> {}],
      [valores |-> [ValoresBase EXCEPT !.codigo = <<"a", " ">>, !.categoria = "Otros"],
       omitidas |-> OmitidasUsual \cup {"cantidad", "descripcion"}, nulas |-> {}],
      [valores |-> [ValoresBase EXCEPT !.codigo = <<"B">>], omitidas |-> {}, nulas |-> {}],
      [valores |-> [ValoresBase EXCEPT !.codigo = <<"B">>, !.id = 1], omitidas |-> {}, nulas |-> {}],
      [valores |-> [ValoresBase EXCEPT !.codigo = PROD001], omitidas |-> OmitidasUsual, nulas |-> {}],
      [valores |-> [ValoresBase EXCEPT !.codigo = <<>>], omitidas |-> OmitidasUsual, nulas |-> {}],
      [valores |-> [ValoresBase EXCEPT !.codigo = <<" ", " ">>], omitidas |-> OmitidasUsual, nulas |-> {}],
      [valores |-> [ValoresBase EXCEPT !.nombre = <<" ">>], omitidas |-> OmitidasUsual, nulas |-> {}],
      [valores |-> [ValoresBase EXCEPT !.cantidad = -1], omitidas |-> OmitidasUsual, nulas |-> {}],
      [valores |-> [ValoresBase EXCEPT !.precio = -1], omitidas |-> OmitidasUsual, nulas |-> {}],
      [valores |-> ValoresBase, omitidas |-> OmitidasUsual \cup {"precio"}, nulas |-> {}],
      [valores |-> ValoresBase, omitidas |-> OmitidasUsual, nulas |-> {"nombre", "categoria"}] }

\* WHERE clauses of an UPDATE
Clausulas ==
    { [por |-> "id", id |-> i, categoria |-> ""] : i \in {1, 2, 6} }
    \cup { [por |-> "categoria", id |-> 0, categoria |-> "Accesorios"],
           [por |-> "todas", id |-> 0, categoria |-> ""] }

\* SET lists of an UPDATE: the columns assigned, their values, and those
\* assigned NULL.
Asignaciones ==
    { [columnas |-> {"codigo"}, valores |-> [ValoresBase EXCEPT !.codigo = c], nulas |-> {}]
        : c \in {<<"A">>, PROD001, <<>>, <<" ">>} }
    \cup
    { [columnas |-> {"nombre"}, valores |-> [ValoresBase EXCEPT !.nombre = <<" ", " ">>], nulas |-> {}],
      [columnas |-> {"cantidad"}, valores |-> [ValoresBase EXCEPT !.cantidad = -1], nulas |-> {}],
      [columnas |-> {"cantidad"}, valores |-> ValoresBase, nulas |-> {}],
      [columnas |-> {"precio"}, valores |-> [ValoresBase EXCEPT !.precio = -1], nulas |-> {}],
      [columnas |-> {"precio", "fecha_actualizacion"}, valores |-> ValoresBase, nulas |-> {}],
      [columnas |-> {"fecha_actualizacion"}, valores |-> [ValoresBase EXCEPT !.fecha_actualizacion = 0],
       nulas |-> {}],
      [columnas |-> {"id"}, valores |-> ValoresBase, nulas |-> {}],
      [columnas |-> {"id"}, valores |-> [ValoresBase EXCEPT !.id = 2], nulas |-> {}],
      [columnas |-> {"descripcion", "fecha_actualizacion"}, valores |-> ValoresBase,
       nulas |-> {"descripcion", "fecha_actualizacion"}],
      [columnas |-> {"codigo"}, valores |-> ValoresBase, nulas |-> {"codigo"}] }

\* ------------------------------------------------------------------------
\* productos: state after init.sql
\* ------------------------------------------------------------------------
InitBD ==
    /\ tabla = FilasIniciales
    /\ productos_id_seq = 6
    /\ reloj = 0
    /\ nSentencias = 0
    /\ sqlEstado = "ok"
    /\ ultimaSentencia = [tipo |-> "init.sql"]

\* ------------------------------------------------------------------------
\* productos: INSERT
\* ------------------------------------------------------------------------
\* The row an INSERT builds: a column left out takes its DEFAULT (nextval for
\* id, 0 for cantidad, CURRENT_TIMESTAMP for the two dates, NULL elsewhere).
FilaInsertada(s) ==
    LET dada(c) == c \notin s.omitidas
    IN  [id |-> IF dada("id") THEN s.valores.id ELSE productos_id_seq,
         codigo |-> s.valores.codigo,
         nombre |-> s.valores.nombre,
         descripcion |-> s.valores.descripcion,
         cantidad |-> IF dada("cantidad") THEN s.valores.cantidad ELSE 0,
         precio |-> s.valores.precio,
         categoria |-> s.valores.categoria,
         fecha_creacion |-> IF dada("fecha_creacion") THEN s.valores.fecha_creacion ELSE reloj,
         fecha_actualizacion |-> IF dada("fecha_actualizacion")
                                 THEN s.valores.fecha_actualizacion ELSE reloj,
         nulas |-> s.nulas \cup (s.omitidas \cap {"codigo", "nombre", "descripcion",
                                                  "precio", "categoria"}),
         rid |-> Cardinality(tabla) + 1,
         actualizada |-> FALSE]

Insert(s) ==
    /\ nSentencias < MaxSentencias
    /\ nSentencias' = nSentencias + 1
    /\ productos_id_seq' = IF "id" \in s.omitidas THEN productos_id_seq + 1
                           ELSE productos_id_seq
    /\ sqlEstado' = Veredicto({FilaInsertada(s)}, tabla)
    /\ tabla' = IF sqlEstado' = "ok" THEN tabla \cup {FilaInsertada(s)} ELSE tabla
    /\ ultimaSentencia' = [tipo |-> "insert", s |-> s]
    /\ UNCHANGED reloj

\* ------------------------------------------------------------------------
\* productos: UPDATE and its trigger
\* ------------------------------------------------------------------------
Coincide(f, w) ==
    CASE w.por = "id" -> f.id = w.id
      [] w.por = "categoria" -> "categoria" \notin f.nulas /\ f.categoria = w.categoria
      [] OTHER -> TRUE

\* NEW as the SET list a makes it from the row f
Asignada(f, a) ==
    LET v(c) == IF c \in a.columnas THEN a.valores[c] ELSE f[c]
    IN  [id |-> v("id"), codigo |-> v("codigo"), nombre |-> v("nombre"),
         descripcion |-> v("descripcion"), cantidad |-> v("cantidad"),
         precio |-> v("precio"), categoria |-> v("categoria"),
         fecha_creacion |-> v("fecha_creacion"),
         fecha_actualizacion |-> v("fecha_actualizacion"),
         nulas |-> (f.nulas \ a.columnas) \cup a.nulas,
         rid |-> f.rid,
         actualizada |-> TRUE]

\* a trigger function that returns NEW as the statement made it
actualizar_fecha_modificacion_nula(new) ==
    new

\* actualizar_fecha_modificacion(): NEW.fecha_actualizacion = CURRENT_TIMESTAMP
actualizar_fecha_modificacion(new) ==
    [new EXCEPT !.fecha_actualizacion = reloj, !.nulas = @ \ {"fecha_actualizacion"}]

\* trigger_actualizar_fecha: BEFORE UPDATE ... FOR EACH ROW
FilaActualizada(f, a) ==
    actualizar_fecha_modificacion(Asignada(f, a))

Update(w, a) ==
    /\ nSentencias < MaxSentencias
    /\ nSentencias' = nSentencias + 1
    /\ LET viejas == {f \in tabla : Coincide(f, w)}
           nuevas == {FilaActualizada(f, a) : f \in viejas}
       IN  /\ sqlEstado' = Veredicto(nuevas, tabla \ viejas)
           /\ tabla' = IF sqlEstado' = "ok" THEN (tabla \ viejas) \cup nuevas ELSE tabla
    /\ ultimaSentencia' = [tipo |-> "update", w |-> w, a |-> a]
    /\ UNCHANGED << productos_id_seq, reloj >>

\* time passes
Reloj ==
    /\ reloj < MaxReloj
    /\ reloj' = reloj + 1
    /\ UNCHANGED << tabla, productos_id_seq, nSentencias, sqlEstado, ultimaSentencia >>

NextBD ==
    \/ \E s \in SentenciasInsert : Insert(s) /\ UNCHANGED restoBD
    \/ \E w \in Clausulas : \E a \in Asignaciones : Update(w, a) /\ UNCHANGED restoBD
    \/ Reloj /\ UNCHANGED restoBD

\* ========================================================================
\* ProductoListComponent
\* ========================================================================
\* A product is a record of the fields of Producto; ausentes is the set of
\* optional fields the backend left out (their field is not read).
productosPorPagina ==
    5

Digitos ==
    <<"0", "1", "2", "3", "4", "5", "6", "7", "8", "9">>

NombresDeProducto ==
    << <<"L", "a", "p", "t", "o", "p", " ", "D", "E", "L", "L">>,
       <<"M", "o", "u", "s", "e">>,
       <<"T", "e", "c", "l", "a", "d", "o", " ", "K", "2">>,
       <<"M", "o", "n", "i", "t", "o", "r", " ", "L", "G">> >>

DescripcionesDeProducto ==
    << <<"D", "e", " ", "A", "l", "t", "o", " ", "r", "e", "n", "d", "i", "m", "i", "e", "n", "t", "o">>,
       <<>>,
       <<"i", "n", "a", "l", "a", "m", "b", "r", "i", "c", "o">> >>

\* the i-th product of the backend
ProductoDe(i) ==
    [id |-> i,
     codigo |-> <<"P", "R", "O", "D">> \o <<Digitos[(i \div 10) + 1], Digitos[(i % 10) + 1]>>,
     nombre |-> NombresDeProducto[(i % 4) + 1],
     descripcion |-> DescripcionesDeProducto[(i % 3) + 1],
     cantidad |-> i % 3,
     precio |-> 100 * i,
     categoria |-> IF i % 2 = 0 THEN <<"A", "c", "c", "e", "s", "o", "r", "i", "o", "s">> ELSE <<"E", "l", "e", "c", "t", "r", "o", "n", "i", "c", "a">>,
     ausentes |-> IF i % 5 = 0 THEN {"descripcion", "categoria"} ELSE {}]

Catalogo ==
    [i \in 1..MaxProductos |-> ProductoDe(i)]

\* the lists GET /productos may return
ListasDeProductos ==
    {SubSeq(Catalogo, a, b) : a \in {1, 3}, b \in 0..MaxProductos}

\* what the user may type in the search box
Terminos ==
    { <<>>, <<" ">>, <<" ", "\t">>,
      <<" ", "L", "A", "P", " ">>, <<"a", "c", "c">>, <<"z", "z">>, <<"o">>,
      <<"P", "R", "O", "D">>, <<"d", "e", " ">>, <<"o", " ", "k">>, <<"p", "r", "o", "d", "1", "\t">> }

InitLista ==
    /\ productos = <<>>
    /\ productosFiltrados = <<>>
    /\ terminoBusqueda = <<>>
    /\ paginaActual = 1
    /\ totalPaginas = 0
    /\ cargandoLista = FALSE
    /\ peticionesLista = {}
    /\ nPeticionesLista = 0
    /\ ultimaOp = "constructor"

\* ------------------------------------------------------------------------
\* ProductoListComponent: pure parts
\* ------------------------------------------------------------------------
\* the characters String.prototype.trim removes
Blancos ==
    {" ", "\t", "\n"}

RECURSIVE TrimStart(_)
TrimStart(s) ==
    IF Len(s) > 0 /\ s[1] \in Blancos THEN TrimStart(Tail(s)) ELSE s

RECURSIVE TrimEnd(_)
TrimEnd(s) ==
    IF Len(s) > 0 /\ s[Len(s)] \in Blancos THEN TrimEnd(SubSeq(s, 1, Len(s) - 1)) ELSE s

\* a trim that removes nothing
Trim_identidad(s) ==
    s

\* String.prototype.trim
Trim(s) ==
    TrimEnd(TrimStart(s))

\* String.prototype.includes
Includes(s, t) ==
    \E i \in 0..(Len(s) - Len(t)) : SubSeq(s, i + 1, i + Len(t)) = t

\* Array.prototype.slice(inicio, fin), 0 <= inicio <= fin
Slice(xs, inicio, fin) ==
    SubSeq(xs, inicio + 1, Min(fin, Len(xs)))

\* a division rounded down
MathFloor(a, b) ==
    a \div b

\* Math.ceil(a / b)
MathCeil(a, b) ==
    IF a % b = 0 THEN a \div b ELSE (a \div b) + 1

\* an optional field that holds a non-empty string
Verdadero(producto, campo) ==
    campo \notin producto.ausentes /\ producto[campo] # <<>>

\* the callback of productos.filter in aplicarFiltros
CoincideConTermino(producto, termino) ==
    \/ Includes(ToLowerCase(producto.codigo), termino)
    \/ Includes(ToLowerCase(producto.nombre), termino)
    \/ Verdadero(producto, "descripcion")
         /\ Includes(ToLowerCase(producto.descripcion), termino)
    \/ Verdadero(producto, "categoria")
         /\ Includes(ToLowerCase(producto.categoria), termino)

\* productos.filter(...)
RECURSIVE Filter(_, _)
Filter(lista, termino) ==
    IF lista = <<>> THEN <<>>
    ELSE IF CoincideConTermino(Head(lista), termino)
         THEN <<Head(lista)>> \o Filter(Tail(lista), termino)
         ELSE Filter(Tail(lista), termino)

\* the page obtenerProductosPaginados() returns when paginaActual = pagina
Pagina(filtrados, pagina) ==
    LET inicio == (pagina - 1) * productosPorPagina
        fin == inicio + productosPorPagina
    IN  Slice(filtrados, inicio, fin)

obtenerProductosPaginados ==
    Pagina(productosFiltrados, paginaActual)

\* ------------------------------------------------------------------------
\* ProductoListComponent: handlers
\* ------------------------------------------------------------------------
\* calcularTotalPaginas(), entered with paginaActual = pagina
CalcularTotalPaginas(pagina) ==
    /\ totalPaginas' = MathCeil(Len(productosFiltrados'), productosPorPagina)
    /\ paginaActual' = IF pagina > totalPaginas' /\ totalPaginas' > 0
                       THEN totalPaginas' ELSE pagina

\* aplicarFiltros(), entered with this.productos = lista and
\* this.terminoBusqueda = termino
AplicarFiltros(lista, termino) ==
    /\ productosFiltrados' =
         IF termino = <<>> \/ Trim(termino) = <<>> THEN lista
         ELSE Filter(lista, Trim(ToLowerCase(termino)))
    /\ CalcularTotalPaginas(1)

\* cargarProductos(), called by ngOnInit and after a product is saved or deleted
CargarProductos ==
    /\ nPeticionesLista < MaxPeticionesLista
    /\ nPeticionesLista' = nPeticionesLista + 1
    /\ cargandoLista' = TRUE
    /\ peticionesLista' = peticionesLista \cup {nPeticionesLista + 1}
    /\ ultimaOp' = "cargarProductos"
    /\ UNCHANGED << productos, productosFiltrados, terminoBusqueda, paginaActual,
                    totalPaginas >>

\* the next callback of cargarProductos
ProductosNext(p, data) ==
    /\ peticionesLista' = peticionesLista \ {p}
    /\ productos' = data
    /\ AplicarFiltros(data, terminoBusqueda)
    /\ cargandoLista' = FALSE
    /\ ultimaOp' = "next"
    /\ UNCHANGED << terminoBusqueda, nPeticionesLista >>

\* the error callback of cargarProductos
ProductosError(p) ==
    /\ peticionesLista' = peticionesLista \ {p}
    /\ cargandoLista' = FALSE
    /\ ultimaOp' = "error"
    /\ UNCHANGED << productos, productosFiltrados, terminoBusqueda, paginaActual,
                    totalPaginas, nPeticionesLista >>

\* the user edits the search box bound to terminoBusqueda
EscribirTermino(t) ==
    /\ terminoBusqueda' = t
    /\ ultimaOp' = "terminoBusqueda"
    /\ UNCHANGED << productos, productosFiltrados, paginaActual, totalPaginas,
                    cargandoLista, peticionesLista, nPeticionesLista >>

Buscar ==
    /\ AplicarFiltros(productos, terminoBusqueda)
    /\ ultimaOp' = "buscar"
    /\ UNCHANGED << productos, terminoBusqueda, cargandoLista, peticionesLista,
                    nPeticionesLista >>

LimpiarBusqueda ==
    /\ terminoBusqueda' = <<>>
    /\ AplicarFiltros(productos, <<>>)
    /\ ultimaOp' = "limpiarBusqueda"
    /\ UNCHANGED << productos, cargandoLista, peticionesLista, nPeticionesLista >>

\* a cambiarPagina that takes any page number
CambiarPagina_sin_rango(nuevaPagina) ==
    /\ paginaActual' = nuevaPagina
    /\ ultimaOp' = "cambiarPagina"
    /\ UNCHANGED << productos, productosFiltrados, terminoBusqueda, totalPaginas,
                    cargandoLista, peticionesLista, nPeticionesLista >>

CambiarPagina(nuevaPagina) ==
    /\ paginaActual' = IF nuevaPagina >= 1 /\ nuevaPagina <= totalPaginas
                       THEN nuevaPagina ELSE paginaActual
    /\ ultimaOp' = "cambiarPagina"
    /\ UNCHANGED << productos, productosFiltrados, terminoBusqueda, totalPaginas,
                    cargandoLista, peticionesLista, nPeticionesLista >>

NextLista ==
    \/ CargarProductos /\ UNCHANGED restoLista
    \/ \E p \in peticionesLista : \E data \in ListasDeProductos :
           ProductosNext(p, data) /\ UNCHANGED restoLista
    \/ \E p \in peticionesLista : ProductosError(p) /\ UNCHANGED restoLista
    \/ \E t \in Terminos : EscribirTermino(t) /\ UNCHANGED restoLista
    \/ Buscar /\ UNCHANGED restoLista
    \/ LimpiarBusqueda /\ UNCHANGED restoLista
    \/ \E n \in 0..(totalPaginas + 1) : CambiarPagina(n) /\ UNCHANGED restoLista

\* ========================================================================
\* ProductoService
\* ========================================================================
\* An HttpErrorResponse is a record: errorEvent says that error.error is an
\* ErrorEvent (whose message is eventMessage); otherwise error.error is the
\* body, a record whose tipo says what the server sent.  The detail of an
\* object body is a record too: a string, a list of validation errors or
\* another JSON value (json is its JSON.stringify, verdadero its truthiness).
SinDetail ==
    [tipo |-> "ausente", texto |-> "", lista |-> <<>>, json |-> "", verdadero |-> FALSE]

DetailTexto(t) ==
    [tipo |-> "texto", texto |-> t, lista |-> <<>>, json |-> "", verdadero |-> t # ""]

DetailLista(l) ==
    [tipo |-> "lista", texto |-> "", lista |-> l, json |-> "", verdadero |-> TRUE]

DetailOtro(j, v) ==
    [tipo |-> "otro", texto |-> "", lista |-> <<>>, json |-> j, verdadero |-> v]

CuerpoAusente ==
    [tipo |-> "ausente", texto |-> "", detail |-> SinDetail, mensaje |-> "", message |-> ""]

CuerpoTexto(t) ==
    [tipo |-> "texto", texto |-> t, detail |-> SinDetail, mensaje |-> "", message |-> ""]

CuerpoObjeto(d, m1, m2) ==
    [tipo |-> "objeto", texto |-> "", detail |-> d, mensaje |-> m1, message |-> m2]

\* the entries of a detail list: loc (when the entry has one) and msg
ErrorDeCampo ==
    [tieneLoc |-> TRUE, loc |-> <<"body", "precio">>, msg |-> "value is not a valid float"]

ErrorSinLoc ==
    [tieneLoc |-> FALSE, loc |-> <<>>, msg |-> "invalid"]

Cuerpos ==
    { CuerpoAusente,
      CuerpoTexto(""),
      CuerpoTexto("Internal Server Error"),
      CuerpoObjeto(DetailTexto("Producto no encontrado"), "", ""),
      CuerpoObjeto(DetailTexto(""), "sin detalle", ""),
      CuerpoObjeto(DetailLista(<<>>), "", ""),
      CuerpoObjeto(DetailLista(<<ErrorDeCampo>>), "", ""),
      CuerpoObjeto(DetailLista(<<ErrorDeCampo, ErrorSinLoc>>), "", ""),
      CuerpoObjeto(DetailOtro("{}", TRUE), "", ""),
      CuerpoObjeto(DetailOtro("0", FALSE), "", "cero"),
      CuerpoObjeto(SinDetail, "El codigo ya existe", "otro"),
      CuerpoObjeto(SinDetail, "", "Bad Request"),
      CuerpoObjeto(SinDetail, "", "") }

\* the failures an HTTP call may end with
ErroresHttp ==
    { [errorEvent |-> FALSE, eventMessage |-> "", status |-> st, statusText |-> tx, error |-> c]
        : st \in {0, 404, 422, 500}, tx \in {"", "Unprocessable Entity"}, c \in Cuerpos }
    \cup
    { [errorEvent |-> TRUE, eventMessage |-> m, status |-> 0, statusText |-> "",
       error |-> CuerpoAusente] : m \in {"", "Failed to fetch"} }

\* the methods of the service that make an HTTP call
Metodos ==
    {"obtenerProductos", "crearProducto", "eliminarProducto", "validarExcel"}

NingunaEntrega ==
    [metodo |-> "", canal |-> "ninguno", message |-> "", fallo |-> FALSE]

InitServicio ==
    /\ enVuelo = {}
    /\ entrega = NingunaEntrega

\* `${err.loc?.join('.')}: ${err.msg}`
TextoDeError(err) ==
    (IF err.tieneLoc THEN Join(err.loc, ".") ELSE "undefined") \o ": " \o err.msg

\* handleError: the message of the Error it throws
handleError(error) ==
    LET cuerpo == error.error
        porEstado == "Error " \o ToString(error.status) \o ": " \o error.statusText
    IN  IF error.errorEvent THEN "Error: " \o error.eventMessage
        ELSE IF error.status = 0
             THEN "No se pudo conectar con el servidor. Verifica tu conexion."
        ELSE IF cuerpo.tipo = "ausente" \/ (cuerpo.tipo = "texto" /\ cuerpo.texto = "")
             THEN porEstado
        ELSE IF cuerpo.tipo = "texto" THEN cuerpo.texto
        ELSE IF cuerpo.detail.verdadero
             THEN IF cuerpo.detail.tipo = "texto" THEN cuerpo.detail.texto
                  ELSE IF cuerpo.detail.tipo = "lista"
                       THEN Join([i \in DOMAIN cuerpo.detail.lista |->
                                     TextoDeError(cuerpo.detail.lista[i])], ", ")
                  ELSE cuerpo.detail.json
        ELSE IF cuerpo.mensaje # "" \/ cuerpo.message # ""
             THEN IF cuerpo.mensaje # "" THEN cuerpo.mensaje ELSE cuerpo.message
        ELSE porEstado

\* a method of the service is called and subscribed to
Llamar(m) ==
    /\ m \notin enVuelo
    /\ enVuelo' = enVuelo \cup {m}
    /\ UNCHANGED entrega

\* the call succeeds: the response goes to next
Responder(m) ==
    /\ m \in enVuelo
    /\ enVuelo' = enVuelo \ {m}
    /\ entrega' = [metodo |-> m, canal |-> "next", message |-> "", fallo |-> FALSE]

\* the call fails: catchError(this.handleError) gives throwError(() => new Error(...))
Fallar(m, error) ==
    /\ m \in enVuelo
    /\ enVuelo' = enVuelo \ {m}
    /\ entrega' = [metodo |-> m, canal |-> "error", message |-> handleError(error),
                   fallo |-> TRUE]

NextServicio ==
    \/ \E m \in Metodos : Llamar(m) /\ UNCHANGED restoServicio
    \/ \E m \in Metodos : Responder(m) /\ UNCHANGED restoServicio
    \/ \E m \in Metodos : \E e \in ErroresHttp : Fallar(m, e) /\ UNCHANGED restoServicio

\* ========================================================================
\* ProductoListComponent: the product form
\* ========================================================================
\* The form is a product record; ausentes holds the fields that are null or
\* undefined (id of a new product, a number box the user emptied).
nuevoProducto ==
    [id |-> 0, codigo |-> <<>>, nombre |-> <<>>, descripcion |-> <<>>,
     cantidad |-> 0, precio |-> 0, categoria |-> <<>>, ausentes |-> {"id"}]

\* what the user may leave in the boxes of the form
CodigosDeFormulario ==
    { <<>>, <<" ">>, <<"\t", " ">>, <<"A">>, <<" ", "A", "\t">> }

NombresDeFormulario ==
    { <<>>, <<" ", "\n">>, <<"N">> }

\* a number box holds a number or, emptied, null
NumerosDeFormulario ==
    { [valor |-> -1, ausente |-> FALSE], [valor |-> 0, ausente |-> FALSE],
      [valor |-> 1, ausente |-> FALSE], [valor |-> 0, ausente |-> TRUE] }

InitFormulario ==
    /\ productoForm = nuevoProducto
    /\ editando = FALSE
    /\ errores = <<>>
    /\ peticionesGuardar = {}
    /\ nGuardados = 0

\* guardarProducto without the check of cantidad
ErrorDeCliente_sin_cantidad(form) ==
    IF form.codigo = <<>> \/ Trim(form.codigo) = <<>>
    THEN "El codigo es obligatorio"
    ELSE IF form.nombre = <<>> \/ Trim(form.nombre) = <<>>
    THEN "El nombre es obligatorio"
    ELSE IF "precio" \in form.ausentes \/ form.precio = 0 \/ form.precio <= 0
    THEN "El precio debe ser mayor a 0"
    ELSE ""

\* the client-side checks of guardarProducto: the message pushed to errores,
\* "" when the form passes.  A comparison with null or undefined is false.
ErrorDeCliente(form) ==
    IF form.codigo = <<>> \/ Trim(form.codigo) = <<>>
    THEN "El codigo es obligatorio"
    ELSE IF form.nombre = <<>> \/ Trim(form.nombre) = <<>>
    THEN "El nombre es obligatorio"
    ELSE IF "precio" \in form.ausentes \/ form.precio = 0 \/ form.precio <= 0
    THEN "El precio debe ser mayor a 0"
    ELSE IF "cantidad" \notin form.ausentes /\ form.cantidad < 0
    THEN "La cantidad no puede ser negativa"
    ELSE ""

\* the Error objects the service hands to the error callbacks: handleError
\* keeps only a message, so status, error and statusText are undefined
ErroresDeServicio ==
    { [tieneStatus |-> FALSE, status |-> 0, detail |-> SinDetail, statusText |-> ""] }

\* procesarError(error): the new value of errores
ProcesarError(error) ==
    IF error.tieneStatus /\ error.status = 0
    THEN <<"No se puede conectar con el servidor. Verifica que el backend este corriendo en http://localhost:8000">>
    ELSE IF error.detail.verdadero /\ error.detail.tipo = "lista"
    THEN [i \in DOMAIN error.detail.lista |->
            LET err == error.detail.lista[i]
                campo == IF err.tieneLoc /\ Len(err.loc) > 1 THEN err.loc[Len(err.loc)] ELSE ""
                mensaje == IF err.msg # "" THEN err.msg ELSE "Error de validacion"
            IN  IF campo # "" THEN campo \o ": " \o mensaje ELSE mensaje]
    ELSE IF error.detail.verdadero /\ error.detail.tipo = "texto"
    THEN <<error.detail.texto>>
    ELSE IF error.tieneStatus /\ error.status = 404
    THEN <<"Recurso no encontrado">>
    ELSE IF error.tieneStatus /\ error.status = 500
    THEN <<"Error interno del servidor. Revisa los logs del backend.">>
    ELSE IF error.statusText # ""
    THEN <<"Error " \o ToString(error.status) \o ": " \o error.statusText>>
    ELSE <<"Error desconocido. Revisa la consola del navegador (F12).">>

\* the user edits one box of the form bound to productoForm: campo is the
\* box, valor its new content, and ausente says that a number box is empty
EscribirFormulario(campo, valor, ausente) ==
    /\ productoForm' = [productoForm EXCEPT
                           ![campo] = valor,
                           !.ausentes = IF ausente THEN @ \cup {campo} ELSE @ \ {campo}]
    /\ ultimaOp' = "productoForm"
    /\ UNCHANGED << editando, errores, peticionesGuardar, nGuardados >>
    /\ UNCHANGED << productos, productosFiltrados, terminoBusqueda, paginaActual,
                    totalPaginas, cargandoLista, peticionesLista, nPeticionesLista >>

\* editarProducto(producto), producto the i-th of the list
EditarProducto(i) ==
    /\ i \in 1..Len(productos)
    /\ productoForm' = productos[i]
    /\ editando' = TRUE
    /\ errores' = <<>>
    /\ ultimaOp' = "editarProducto"
    /\ UNCHANGED << peticionesGuardar, nGuardados >>
    /\ UNCHANGED << productos, productosFiltrados, terminoBusqueda, paginaActual,
                    totalPaginas, cargandoLista, peticionesLista, nPeticionesLista >>

\* cancelar()
Cancelar ==
    /\ productoForm' = nuevoProducto
    /\ editando' = FALSE
    /\ errores' = <<>>
    /\ ultimaOp' = "cancelar"
    /\ UNCHANGED << peticionesGuardar, nGuardados >>
    /\ UNCHANGED << productos, productosFiltrados, terminoBusqueda, paginaActual,
                    totalPaginas, cargandoLista, peticionesLista, nPeticionesLista >>

\* guardarProducto(): the checks, then actualizarProducto or crearProducto
GuardarProducto ==
    /\ nGuardados < MaxGuardados
    /\ ultimaOp' = "guardarProducto"
    /\ IF ErrorDeCliente(productoForm) # ""
       THEN /\ errores' = <<ErrorDeCliente(productoForm)>>
            /\ UNCHANGED << cargandoLista, peticionesGuardar, nGuardados >>
       ELSE /\ errores' = <<>>
            /\ cargandoLista' = TRUE
            /\ nGuardados' = nGuardados + 1
            /\ peticionesGuardar' = peticionesGuardar \cup
                 {[n |-> nGuardados + 1,
                   metodo |-> IF editando /\ "id" \notin productoForm.ausentes
                                          /\ productoForm.id # 0
                              THEN "actualizarProducto" ELSE "crearProducto",
                   producto |-> productoForm]}
    /\ UNCHANGED << productoForm, editando >>
    /\ UNCHANGED << productos, productosFiltrados, terminoBusqueda, paginaActual,
                    totalPaginas, peticionesLista, nPeticionesLista >>

\* the next callback of guardarProducto: cargarProductos(), cancelar()
GuardarNext(p) ==
    /\ p \in peticionesGuardar
    /\ peticionesGuardar' = peticionesGuardar \ {p}
    /\ cargandoLista' = TRUE
    /\ nPeticionesLista' = nPeticionesLista + 1
    /\ peticionesLista' = peticionesLista \cup {nPeticionesLista + 1}
    /\ productoForm' = nuevoProducto
    /\ editando' = FALSE
    /\ errores' = <<>>
    /\ ultimaOp' = "guardarNext"
    /\ UNCHANGED nGuardados
    /\ UNCHANGED << productos, productosFiltrados, terminoBusqueda, paginaActual,
                    totalPaginas >>

\* the error callback of guardarProducto
GuardarError(p, error) ==
    /\ p \in peticionesGuardar
    /\ peticionesGuardar' = peticionesGuardar \ {p}
    /\ errores' = ProcesarError(error)
    /\ cargandoLista' = FALSE
    /\ ultimaOp' = "guardarError"
    /\ UNCHANGED << productoForm, editando, nGuardados >>
    /\ UNCHANGED << productos, productosFiltrados, terminoBusqueda, paginaActual,
                    totalPaginas, peticionesLista, nPeticionesLista >>

\* the form, with the reloads of the list that a saved product causes
NextFormulario ==
    \/ \E c \in CodigosDeFormulario :
           EscribirFormulario("codigo", c, FALSE) /\ UNCHANGED restoFormulario
    \/ \E n \in NombresDeFormulario :
           EscribirFormulario("nombre", n, FALSE) /\ UNCHANGED restoFormulario
    \/ \E k \in NumerosDeFormulario :
           EscribirFormulario("cantidad", k.valor, k.ausente) /\ UNCHANGED restoFormulario
    \/ \E q \in NumerosDeFormulario :
           EscribirFormulario("precio", q.valor, q.ausente) /\ UNCHANGED restoFormulario
    \/ \E i \in 1..Len(productos) : EditarProducto(i) /\ UNCHANGED restoFormulario
    \/ Cancelar /\ UNCHANGED restoFormulario
    \/ GuardarProducto /\ UNCHANGED restoFormulario
    \/ \E p \in peticionesGuardar : GuardarNext(p) /\ UNCHANGED restoFormulario
    \/ \E p \in peticionesGuardar : \E e \in ErroresDeServicio :
           GuardarError(p, e) /\ UNCHANGED restoFormulario
    \/ \E p \in peticionesLista : \E data \in {SubSeq(Catalogo, 1, 2)} :
           ProductosNext(p, data) /\ UNCHANGED restoLista
    \/ \E p \in peticionesLista : ProductosError(p) /\ UNCHANGED restoLista

\* ========================================================================
\* Specifications
\* ========================================================================
Init ==
    InitCarga /\ InitBD /\ InitLista /\ InitServicio /\ InitFormulario

\* the upload component alone
SpecCarga ==
    Init /\ [][NextCarga]_vars

\* timers fire and the backend answers every request it was sent
JusticiaCarga ==
    /\ WF_vars(\E t \in temporizadores : \E w \in BOOLEAN :
                   TemporizadorInicio(t, w) /\ UNCHANGED restoCarga)
    /\ WF_vars(\E t \in temporizadores : TemporizadorFin(t) /\ UNCHANGED restoCarga)
    /\ WF_vars(\/ \E p \in peticionesCargar : \E r \in RespuestasCarga :
                      CargarNext(p, r) /\ UNCHANGED restoCarga
               \/ \E p \in peticionesCargar : \E m \in MensajesDeError :
                      CargarError(p, m) /\ UNCHANGED restoCarga)
    /\ WF_vars(\/ \E p \in peticionesValidar : \E r \in RespuestasValidacion :
                      ValidarNext(p, r) /\ UNCHANGED restoCarga
               \/ \E p \in peticionesValidar : \E m \in MensajesDeError :
                      ValidarError(p, m) /\ UNCHANGED restoCarga)

\* the upload component with timers that fire and a backend that answers
SpecCargaJusta ==
    Init /\ [][NextCarga]_vars /\ JusticiaCarga

\* total_filas of the file whose upload is simulated
FilasDeProgreso ==
    {0, 10, 40, 60, 80, 81, 200}

\* The upload component once the file b.XLSX has been selected and
\* validarExcel has answered valido = true with total_filas = n: the state
\* OnFileSelected and ValidarNext leave.
InitProgreso ==
    \E n \in FilasDeProgreso :
        LET f == [nombre |-> <<"b", ".", "X", "L", "S", "X">>, size |-> MAX_SIZE]
        IN  /\ archivoSeleccionado = f
            /\ nombreArchivo = f.nombre
            /\ validacion = [valido |-> TRUE, mensaje |-> "Archivo valido", errores |-> <<>>,
                             total_filas |-> n, datos_previos |-> IF n = 0 THEN 0 ELSE 1,
                             advertencias |-> <<>>, archivo |-> f]
            /\ resultado = NULO
            /\ validando = FALSE
            /\ cargando = FALSE
            /\ mostrarVistaPrevia = (n # 0)
            /\ mensajeError = ""
            /\ mensajeExito = "Archivo valido"
            /\ mensajeAdvertencia = ""
            /\ progreso = 0
            /\ progresoMensaje = ""
            /\ websocket = 0
            /\ intervaloSimulacion = 0
            /\ peticionesValidar = {}
            /\ peticionesCargar = {}
            /\ temporizadores = {}
            /\ intervalos = {}
            /\ sockets = {}
            /\ destruido = FALSE
            /\ acciones = 1
            /\ nValidar = 1
            /\ enviadas = {}
            /\ confirmadas = 0
            /\ wsRecibido = FALSE

\* the upload of a validated file with no progress socket
NextProgreso ==
    \/ \E c \in BOOLEAN : CargarArchivo(c) /\ UNCHANGED restoCarga
    \/ \E t \in temporizadores : TemporizadorInicio(t, TRUE) /\ UNCHANGED restoCarga
    \/ \E i \in intervalos : IntervaloTick(i) /\ UNCHANGED restoCarga
    \/ \E p \in peticionesCargar : \E r \in RespuestasCarga : CargarNext(p, r) /\ UNCHANGED restoCarga
    \/ \E p \in peticionesCargar : \E m \in MensajesDeError : CargarError(p, m) /\ UNCHANGED restoCarga
    \/ \E t \in temporizadores : TemporizadorFin(t) /\ UNCHANGED restoCarga

\* a validated file of each total_filas, the rest as constructed
InitDeProgreso ==
    InitProgreso /\ InitBD /\ InitLista /\ InitServicio /\ InitFormulario

\* the simulated progress of an upload, for each total_filas
SpecProgreso ==
    InitDeProgreso /\ [][NextProgreso]_vars

\* the table alone
SpecBD ==
    Init /\ [][NextBD]_vars

\* the product list alone
SpecLista ==
    Init /\ [][NextLista]_vars

\* the service alone
SpecServicio ==
    Init /\ [][NextServicio]_vars

\* the product form alone
SpecFormulario ==
    Init /\ [][NextFormulario]_vars

Next ==
    \/ NextCarga
    \/ NextBD
    \/ NextLista
    \/ NextServicio
    \/ NextFormulario

Spec ==
    Init /\ [][Next]_vars

\* ========================================================================
\* Properties
\* ========================================================================
\* ------------------------------------------------------------------------
\* CargaExcelComponent
\* ------------------------------------------------------------------------
\* C1: every cargarExcel request carries a file for which validarExcel
\* answered valido = true: the validation held in validacion when the
\* request was sent is valid and is the answer for that same file.
C1_ValidarAntesDeCargar ==
    \A e \in enviadas :
        /\ e.validacion # NULO
        /\ e.validacion.valido
        /\ e.validacion.archivo = e.archivo

\* name ends with sufijo, compared without regard to case
TerminaEn(nombre, sufijo) ==
    /\ Len(nombre) >= Len(sufijo)
    /\ SubSeq(ToLowerCase(nombre), Len(nombre) - Len(sufijo) + 1, Len(nombre)) = sufijo

\* C2: onFileSelected accepts a file only if it is at most 10 MB and its
\* name ends with .xlsx or .xls in any case; a rejected file leaves
\* archivoSeleccionado null, nombreArchivo empty, mensajeError non-empty and
\* sends no validarExcel request; an accepted file sends exactly one, for it.
C2_ControlDeArchivo ==
    [][ \A f \in Archivos :
          OnFileSelected(f) =>
            LET aceptado == (archivoSeleccionado' = f)
            IN  /\ aceptado =>
                     /\ f.size <= 10485760
                     /\ \/ TerminaEn(f.nombre, <<".", "x", "l", "s", "x">>)
                        \/ TerminaEn(f.nombre, <<".", "x", "l", "s">>)
                     /\ \E p \in peticionesValidar' :
                           /\ p.archivo = f
                           /\ p \notin peticionesValidar
                           /\ peticionesValidar' = peticionesValidar \cup {p}
                     /\ nValidar' = nValidar + 1
                /\ ~aceptado =>
                     /\ archivoSeleccionado' = NULO
                     /\ nombreArchivo' = <<>>
                     /\ mensajeError' # ""
                     /\ peticionesValidar' = peticionesValidar
                     /\ nValidar' = nValidar ]_vars

\* every confirmed cargarArchivo whose 100 ms callback has run has sent
\* exactly one cargarExcel request
UnaPeticionPorConfirmacion ==
    \A k \in 1..confirmadas :
        (\A t \in temporizadores : ~(t.tipo = "inicio" /\ t.id = k))
            => Cardinality({e \in enviadas : e.id = k}) = 1

\* C3: whatever the socket does, each confirmed cargarArchivo sends exactly
\* one cargarExcel request, and once its response is processed (the error
\* callback, or the 2000 ms callback of the next callback) cargando is false
\* and websocket is null.
C3_WebSocketOpcional ==
    [][ /\ UnaPeticionPorConfirmacion'
        /\ ( \/ \E p \in peticionesCargar : \E m \in MensajesDeError : CargarError(p, m)
             \/ \E t \in temporizadores : TemporizadorFin(t) )
             => (cargando' = FALSE /\ websocket' = 0) ]_vars

\* C4: while a cargarExcel request is in flight and no socket message has
\* arrived, progreso is within 0..85; without a socket message progreso is
\* 100 only after a cargarExcel request has been answered.
C4_ProgresoSimulado ==
    ~wsRecibido =>
        /\ peticionesCargar # {} => progreso \in 0..85
        /\ progreso = 100 => \E e \in enviadas : \A p \in peticionesCargar : p.id # e.id

\* C11: whenever cargarArchivo has set cargando = true, cargando becomes
\* false again, given that timers fire and the backend answers every
\* request sent.
C11_LaCargaTermina ==
    cargando ~> ~cargando

\* C12: after a successful cargarExcel response has set progreso = 100,
\* progreso stays 100 in every state until the 2000 ms callback of that
\* response runs.
C12_CienPorCientoDosSegundos ==
    (\E t \in temporizadores : t.tipo = "fin" /\ t.resultado.success) => progreso = 100

\* C13: for every total_filas, every 200 ms tick taken while progreso < 80
\* strictly increases progreso, so that the bar climbs to the 80-85 plateau.
C13_ProgresoAvanza ==
    [][\A i \in intervalos :
          (IntervaloTick(i) /\ progreso < 80) => progreso' > progreso]_vars

\* C14: at most one simulation interval runs and at most one progress socket
\* is open, and with cargando = false none runs and none is open.
C14_UnTemporizadorUnSocket ==
    /\ Cardinality(intervalos) <= 1
    /\ Cardinality(sockets) <= 1
    /\ ~cargando => (intervalos = {} /\ sockets = {})

\* C15: once ngOnDestroy has run no simulation interval runs, no socket of
\* the component is open and no cargarExcel request is started.
C15_DestruccionDefinitiva ==
    /\ [](destruido => (intervalos = {} /\ sockets = {}))
    /\ [][destruido => enviadas' = enviadas]_vars

\* C16: validando is true exactly when some validarExcel request has been
\* sent and has produced neither its response nor its error.
C16_ValidandoSiguePendientes ==
    validando <=> (peticionesValidar # {})

\* C17: when validacion is not null a file is selected and validacion is the
\* response to the validarExcel request made for that file.
C17_ValidacionDelArchivo ==
    validacion # NULO =>
        (archivoSeleccionado # NULO /\ validacion.archivo = archivoSeleccionado)

\* what limpiar() writes and what it leaves as it was
MarcoDeLimpiar ==
    /\ archivoSeleccionado' = NULO
    /\ validacion' = NULO
    /\ resultado' = NULO
    /\ nombreArchivo' = <<>>
    /\ progresoMensaje' = ""
    /\ mensajeError' = ""
    /\ mensajeExito' = ""
    /\ mensajeAdvertencia' = ""
    /\ mostrarVistaPrevia' = FALSE
    /\ progreso' = 0
    /\ UNCHANGED << cargando, validando, websocket, intervaloSimulacion >>
    /\ UNCHANGED << peticionesValidar, peticionesCargar, temporizadores, intervalos, sockets >>

\* C18: limpiar sets archivoSeleccionado, validacion and resultado to null,
\* nombreArchivo, progresoMensaje and the three messages to empty,
\* mostrarVistaPrevia to false and progreso to 0, and leaves cargando,
\* validando, websocket and intervaloSimulacion unchanged: it cancels neither
\* a pending validation nor an upload in flight.
C18_MarcoDeLimpiar ==
    [][Limpiar => MarcoDeLimpiar]_vars

\* limpiar() has run while an upload was in flight with its interval running
C18_Testigo ==
    /\ archivoSeleccionado = NULO
    /\ validacion = NULO
    /\ mensajeError = ""
    /\ cargando
    /\ intervaloSimulacion # 0
    /\ peticionesCargar # {}
    /\ progreso = 0
    /\ progresoMensaje = ""

\* ------------------------------------------------------------------------
\* productos
\* ------------------------------------------------------------------------
\* s has a character that is not a space
NoEnBlanco(s) ==
    \E i \in 1..Len(s) : s[i] # " "

\* the four CHECK conditions on a stored row
FilaValida(f) ==
    /\ f.cantidad >= 0
    /\ f.precio >= 0
    /\ NoEnBlanco(f.codigo)
    /\ NoEnBlanco(f.nombre)

\* the value the statement part x (an INSERT, or the SET list of an UPDATE)
\* gives to column c breaks the CHECK on c
DaValorInvalido(x, dadas) ==
    \/ "cantidad" \in dadas /\ x.valores.cantidad < 0
    \/ "precio" \in dadas /\ x.valores.precio < 0
    \/ "codigo" \in dadas /\ ~NoEnBlanco(x.valores.codigo)
    \/ "nombre" \in dadas /\ ~NoEnBlanco(x.valores.nombre)

ColumnasCheck ==
    {"cantidad", "precio", "codigo", "nombre"}

\* a statement that would store a row breaking a CHECK is rejected and
\* leaves the table as it was
RechazoPorCheck ==
    LET u == ultimaSentencia'
    IN  nSentencias' # nSentencias =>
          /\ (u.tipo = "insert"
                 /\ DaValorInvalido(u.s, ColumnasCheck \ (u.s.omitidas \cup u.s.nulas)))
                => (tabla' = tabla /\ sqlEstado' # "ok")
          /\ (u.tipo = "update"
                 /\ (\E f \in tabla : Coincide(f, u.w))
                 /\ DaValorInvalido(u.a, (ColumnasCheck \cap u.a.columnas) \ u.a.nulas))
                => (tabla' = tabla /\ sqlEstado' # "ok")

\* C5: after any sequence of INSERT and UPDATE statements every stored row
\* has cantidad >= 0, precio >= 0 and a codigo and a nombre that are not
\* empty once their spaces are trimmed; a statement that would break one of
\* these is rejected and leaves the table unchanged.
C5_RestriccionesCheck ==
    /\ [](\A f \in tabla : FilaValida(f))
    /\ [][RechazoPorCheck]_vars

\* a CHECK has rejected a statement after an INSERT had added a row
C5_Testigo ==
    /\ sqlEstado \in {"check_cantidad", "check_precio", "check_codigo_no_vacio",
                      "check_nombre_no_vacio"}
    /\ Cardinality(tabla) > Cardinality(FilasIniciales)

\* the columns of a row but fecha_actualizacion
OtrasColumnas ==
    {"id", "codigo", "nombre", "descripcion", "cantidad", "precio", "categoria",
     "fecha_creacion"}

\* g is the row f after UPDATE ... SET a, stamped with the clock
EsActualizacionDe(g, f, a) ==
    /\ g.rid = f.rid
    /\ g.fecha_actualizacion = reloj
    /\ "fecha_actualizacion" \notin g.nulas
    /\ \A c \in OtrasColumnas :
          /\ (c \in g.nulas) <=> (IF c \in a.columnas THEN c \in a.nulas ELSE c \in f.nulas)
          /\ c \notin g.nulas => g[c] = (IF c \in a.columnas THEN a.valores[c] ELSE f[c])
    /\ f.actualizada => g.fecha_actualizacion >= f.fecha_actualizacion

SelloEnUpdate ==
    LET u == ultimaSentencia'
    IN  (nSentencias' # nSentencias /\ u.tipo = "update" /\ sqlEstado' = "ok") =>
            /\ \A f \in tabla : Coincide(f, u.w) =>
                  \E g \in tabla' : EsActualizacionDe(g, f, u.a)
            /\ \A f \in tabla : ~Coincide(f, u.w) => f \in tabla'
            /\ Cardinality(tabla') = Cardinality(tabla)

InsertSinTrigger ==
    LET u == ultimaSentencia'
    IN  (nSentencias' # nSentencias /\ u.tipo = "insert" /\ sqlEstado' = "ok") =>
            \E g \in tabla' \ tabla :
                /\ tabla' = tabla \cup {g}
                /\ g.fecha_actualizacion =
                     (IF "fecha_actualizacion" \in u.s.omitidas THEN reloj
                      ELSE u.s.valores.fecha_actualizacion)

\* C6: every UPDATE of a row stores fecha_actualizacion = the clock at the
\* update, whatever the statement supplies, and changes no other column
\* beyond the SET list; a row's fecha_actualizacion never decreases from one
\* update to the next; an INSERT stores the value it gives (or the default).
C6_SelloDeActualizacion ==
    [][SelloEnUpdate /\ InsertSinTrigger]_vars

\* row 1 was updated twice (precio with a supplied fecha_actualizacion,
\* then cantidad), the second time after the clock had advanced
C6_Testigo ==
    \E f \in tabla :
        /\ f.rid = 1 /\ f.actualizada
        /\ f.precio = 0 /\ f.cantidad = 2
        /\ f.fecha_actualizacion = reloj /\ reloj > 0

\* a statement that would give a row the codigo of another row is rejected
\* and leaves the table as it was
RechazoPorDuplicado ==
    LET u == ultimaSentencia'
    IN  nSentencias' # nSentencias =>
          /\ (u.tipo = "insert"
                 /\ "codigo" \notin (u.s.omitidas \cup u.s.nulas)
                 /\ \E g \in tabla : g.codigo = u.s.valores.codigo)
                => (tabla' = tabla /\ sqlEstado' # "ok")
          /\ (u.tipo = "update"
                 /\ "codigo" \in u.a.columnas \ u.a.nulas
                 /\ \E f \in tabla : Coincide(f, u.w)
                       /\ \E g \in tabla : g.rid # f.rid /\ g.codigo = u.a.valores.codigo)
                => (tabla' = tabla /\ sqlEstado' # "ok")

\* C7: after any sequence of INSERT and UPDATE statements no two rows have
\* the same codigo and no two rows have the same id; a statement that would
\* duplicate an existing codigo is rejected and leaves the table unchanged.
C7_Unicidad ==
    /\ [](\A f, g \in tabla : f.rid # g.rid => (f.codigo # g.codigo /\ f.id # g.id))
    /\ [][RechazoPorDuplicado]_vars

\* the UNIQUE constraint has rejected a statement after an INSERT had added a row
C7_Testigo ==
    /\ sqlEstado = "productos_codigo_key"
    /\ Cardinality(tabla) > Cardinality(FilasIniciales)

\* ------------------------------------------------------------------------
\* ProductoListComponent
\* ------------------------------------------------------------------------
\* the pages 1..k of productosFiltrados, one after another
RECURSIVE PaginasHasta(_)
PaginasHasta(k) ==
    IF k = 0 THEN <<>> ELSE PaginasHasta(k - 1) \o Pagina(productosFiltrados, k)

\* C8: in every reachable state the pages obtenerProductosPaginados() gives
\* for paginaActual = 1..totalPaginas, one after another, are exactly
\* productosFiltrados in order; each of them holds between 1 and 5 products;
\* and totalPaginas = ceil(|productosFiltrados| / 5).
C8_PaginacionParticiona ==
    /\ PaginasHasta(totalPaginas) = productosFiltrados
    /\ \A k \in 1..totalPaginas : Len(Pagina(productosFiltrados, k)) \in 1..5
    /\ totalPaginas * 5 >= Len(productosFiltrados)
    /\ (totalPaginas - 1) * 5 < Len(productosFiltrados)
    /\ totalPaginas >= 0

\* the user is on the third page, which is the last and is not full
C8_Testigo ==
    /\ ultimaOp = "cambiarPagina"
    /\ Len(productosFiltrados) = 11
    /\ totalPaginas = 3
    /\ paginaActual = 3
    /\ Len(obtenerProductosPaginados) = 1

\* t without the blanks at its two ends
SinBlancosAlrededor(t) ==
    LET letras == {i \in 1..Len(t) : t[i] \notin Blancos}
    IN  IF letras = {} THEN <<>>
        ELSE SubSeq(t, CHOOSE i \in letras : \A j \in letras : i <= j,
                       CHOOSE i \in letras : \A j \in letras : i >= j)

\* campo contains t, upper and lower case taken as the same letter
ContieneSinDistinguirCaja(campo, t) ==
    \E i \in 0..(Len(campo) - Len(t)) :
        \A j \in 1..Len(t) : Minuscula(campo[i + j]) = Minuscula(t[j])

\* the products of lista that the search for termino keeps, in their order
ResultadoDeBusqueda(lista, termino) ==
    LET t == SinBlancosAlrededor(termino)
        tiene(p, c) == c \notin p.ausentes /\ ContieneSinDistinguirCaja(p[c], t)
        cumple(p) == \/ tiene(p, "codigo") \/ tiene(p, "nombre")
                     \/ tiene(p, "descripcion") \/ tiene(p, "categoria")
    IN  IF t = <<>> THEN lista ELSE SelectSeq(lista, cumple)

\* C9: after buscar() productosFiltrados is the order-preserving sublist of
\* productos whose codigo, nombre, descripcion or categoria contains the
\* trimmed, lower-cased terminoBusqueda, case-insensitively, and it is all
\* of productos when the term is empty or only whitespace; after
\* limpiarBusqueda() the term is empty and productosFiltrados is productos.
C9_ResultadoDeBusqueda ==
    /\ ultimaOp = "buscar" =>
          productosFiltrados = ResultadoDeBusqueda(productos, terminoBusqueda)
    /\ ultimaOp = "limpiarBusqueda" =>
          (terminoBusqueda = <<>> /\ productosFiltrados = productos)

\* buscar() has run with a term in capitals between blanks that keeps
\* some products and drops others
C9_Testigo ==
    /\ ultimaOp = "buscar"
    /\ terminoBusqueda = <<" ", "L", "A", "P", " ">>
    /\ Len(productosFiltrados) > 0
    /\ Len(productosFiltrados) < Len(productos)

\* cambiarPagina with a page outside 1..totalPaginas changes no field
CambioFueraDeRango ==
    \A n \in 0..(totalPaginas + 1) :
        (CambiarPagina(n) /\ (n < 1 \/ n > totalPaginas)) =>
            UNCHANGED << productos, productosFiltrados, terminoBusqueda, paginaActual,
                         totalPaginas, cargandoLista >>

\* C19: in every reachable state paginaActual >= 1 and either
\* totalPaginas = 0 or paginaActual <= totalPaginas; cambiarPagina with an
\* argument outside 1..totalPaginas leaves the state unchanged; every reload
\* and every filter change puts paginaActual back to 1.
C19_PaginaActualValida ==
    /\ [](/\ paginaActual >= 1
          /\ (totalPaginas = 0 \/ paginaActual <= totalPaginas)
          /\ ultimaOp \in {"next", "buscar", "limpiarBusqueda"} => paginaActual = 1)
    /\ [][CambioFueraDeRango]_vars

\* a second load of eleven products has answered while a search term keeps
\* at most five of them: the page is 1
C19_Testigo ==
    /\ ultimaOp = "next"
    /\ nPeticionesLista = 2
    /\ Len(productos) = 11
    /\ Len(productosFiltrados) \in 1..5
    /\ paginaActual = 1
    /\ totalPaginas = 1

\* the row of productos that holds the fields of a product as sent
FilaDeProducto(producto) ==
    [id |-> producto.id, codigo |-> producto.codigo, nombre |-> producto.nombre,
     descripcion |-> "", cantidad |-> producto.cantidad, precio |-> producto.precio,
     categoria |-> "", fecha_creacion |-> 0, fecha_actualizacion |-> 0,
     nulas |-> producto.ausentes \cap {"cantidad", "precio"}, rid |-> 0,
     actualizada |-> FALSE]

\* C20: every product that passes the client-side checks of guardarProducto
\* and is sent satisfies the four CHECK constraints of productos, so that no
\* CHECK can reject it.
C20_ClienteMasEstricto ==
    \A p \in peticionesGuardar :
        LET fila == FilaDeProducto(p.producto)
        IN  /\ check_cantidad(fila)
            /\ check_precio(fila)
            /\ check_codigo_no_vacio(fila)
            /\ check_nombre_no_vacio(fila)
            /\ Veredicto({fila}, {}) \notin {"check_cantidad", "check_precio",
                                            "check_codigo_no_vacio", "check_nombre_no_vacio"}

\* a product at the edge of the checks has been sent: cantidad 0 and a codigo
\* with blanks around its only letter
C20_Testigo ==
    \E p \in peticionesGuardar :
        /\ p.producto.cantidad = 0
        /\ "cantidad" \notin p.producto.ausentes
        /\ p.producto.codigo = <<" ", "A", "\t">>

\* ------------------------------------------------------------------------
\* ProductoService
\* ------------------------------------------------------------------------
\* C10: every failed HTTP call reaches its subscriber as an error, never as
\* a next value, and the message of that error is not empty, whatever the
\* status, the statusText and the body of the response.
C10_ErrorConMensaje ==
    entrega.fallo => (entrega.canal = "error" /\ entrega.message # "")

=============================================================================
